---- MODULE Spec2Model ----
(***************************************************************************)
(* docsai: a command-line tool with two commands.                          *)
(*   document FILES [--replace]   reads each file, sends it to a           *)
(*                                generative model, strips the first and   *)
(*                                last line of the answer and writes it.   *)
(*   config --api-key K [--config-path P]   stores K in a TOML file.       *)
(* The persistent state is the file system: the TOML configuration files   *)
(* and the source files.  Every invocation is one process.                 *)
(***************************************************************************)
EXTENDS Integers, Sequences, FiniteSets, TLC

VARIABLES
    cfg,        \* configuration files: config path -> file content
    fs,         \* source files: resolved path -> text, or NoFile
    pc,         \* "idle" (nothing run yet), "files" (in handling_files), "done"
    cmd,        \* the invocation: command name and its arguments
    idx,        \* handling_files: position in files of the next file (1-based)
    genaiKey,   \* credential set by genai.configure in this process, or NoValue
    reads,      \* contents read (and sent to the model) by this process, in order
    resp,       \* text of the last model response received by this process
    writes,     \* output files written by this process: [path, content], in order
    result,     \* how the process ended: [exit, why]
    fs0,        \* fs when the process started
    cfg0,       \* cfg when the process started
    saves,      \* config path -> the keys the config command stored there, in order
    left        \* invocations still to come in this behaviour

vars == <<cfg, fs, pc, cmd, idx, genaiKey, reads, resp, writes, result, fs0, cfg0,
          saves, left>>

-----------------------------------------------------------------------------
(* Bounds *)

MaxLen == 4        \* longest model response, in characters
MaxFiles == 2      \* longest FILES list
MaxRuns == 3       \* invocations in one behaviour

-----------------------------------------------------------------------------
(* Text: a sequence of characters *)

NL == "\n"
CR == "\r"
Alphabet == {"a", NL, CR}

RECURSIVE TextsOfLen(_)
TextsOfLen(n) ==
    IF n = 0 THEN {<<>>}
    ELSE {Append(t, c) : t \in TextsOfLen(n - 1), c \in Alphabet}

Texts == UNION {TextsOfLen(n) : n \in 0..MaxLen}

\* str.splitlines(): a line ends at "\n", "\r" or "\r\n"; the end of the text
\* ends a line only when characters follow the last line end.
RECURSIVE SplitFrom(_, _, _)
SplitFrom(t, i, cur) ==
    IF i > Len(t) THEN (IF cur = <<>> THEN <<>> ELSE <<cur>>)
    ELSE IF t[i] = CR /\ i < Len(t) /\ t[i + 1] = NL
         THEN <<cur>> \o SplitFrom(t, i + 2, <<>>)
    ELSE IF t[i] \in {CR, NL}
         THEN <<cur>> \o SplitFrom(t, i + 1, <<>>)
    ELSE SplitFrom(t, i + 1, Append(cur, t[i]))

splitlines(t) == SplitFrom(t, 1, <<>>)

Min(a, b) == IF a < b THEN a ELSE b
Max(a, b) == IF a > b THEN a ELSE b

\* lines[1:-1]: Python clamps the bounds of a slice and never raises.
\* 0-based start = min(1, L), stop = max(L - 1, 0); empty when start >= stop.
\* lines[1:]
Slice_1_end(lines) == SubSeq(lines, 2, Len(lines))

\* lines[1:-1] only when there are two lines to drop
Slice_if_fenced(lines) ==
    IF Len(lines) < 2 THEN lines ELSE SubSeq(lines, 2, Len(lines) - 1)

Slice_1_m1(lines) ==
    SubSeq(lines, Min(1, Len(lines)) + 1, Max(Len(lines) - 1, 0))

\* "\n".join(lines)
RECURSIVE join(_)
join(lines) ==
    IF lines = <<>> THEN <<>>
    ELSE IF Len(lines) = 1 THEN lines[1]
    ELSE lines[1] \o <<NL>> \o join(Tail(lines))

\* main.py 156-158: the text written for a model response
doc_code(response) == join(Slice_1_m1(splitlines(response)))

\* open(path, "r").read(): text mode translates "\r\n" and "\r" to "\n"
RECURSIVE ReadFrom(_, _)
ReadFrom(t, i) ==
    IF i > Len(t) THEN <<>>
    ELSE IF t[i] = CR /\ i < Len(t) /\ t[i + 1] = NL
         THEN <<NL>> \o ReadFrom(t, i + 2)
    ELSE IF t[i] = CR THEN <<NL>> \o ReadFrom(t, i + 1)
    ELSE <<t[i]>> \o ReadFrom(t, i + 1)

read(t) == ReadFrom(t, 1)

-----------------------------------------------------------------------------
(* Source files *)

Cwd == "/w"
NoFile == <<"<no file>">>            \* marks a path at which no file exists

\* the paths a user may pass in FILES; "." is relative to the working directory
InputPaths ==
    { [dir |-> ".",  name |-> "a"],
      [dir |-> "/w", name |-> "a"],
      [dir |-> "/w", name |-> "doc_a"],
      [dir |-> "/v", name |-> "a"] }

\* Path.resolve(): the absolute path of the same file
resolve(p) == [dir |-> IF p.dir = "." THEN Cwd ELSE p.dir, name |-> p.name]

\* Path.with_name(n)
with_name(p, n) == [dir |-> p.dir, name |-> n]

\* main.py 147-151: where the documented code of `file` goes
\* the doc_ file put in the working directory, not beside the input
output_file_cwd(file, replace) ==
    IF replace THEN resolve(file)
    ELSE [dir |-> Cwd, name |-> "doc_" \o file.name]

output_file(file, replace) ==
    IF replace THEN resolve(file)
    ELSE with_name(resolve(file), "doc_" \o file.name)

FilePaths ==
    {resolve(p) : p \in InputPaths} \cup {output_file(p, FALSE) : p \in InputPaths}

SrcText == <<"a", CR, NL>>           \* what a source file holds before any run

RECURSIVE SeqsOfLen(_, _)
SeqsOfLen(S, n) ==
    IF n = 0 THEN {<<>>}
    ELSE {Append(q, x) : q \in SeqsOfLen(S, n - 1), x \in S}

FileLists == UNION {SeqsOfLen(InputPaths, n) : n \in 1..MaxFiles}
OneFileLists == SeqsOfLen(InputPaths, 1)

\* the model answers the system exercises: empty, one line, a fenced answer
Replies == { <<>>, <<"a">>, <<"a", NL, "a", NL, "a">> }

-----------------------------------------------------------------------------
(* Configuration files *)

DefaultConfigPath == "~/docsai.toml"         \* Path.home() / "docsai.toml"
OtherConfigPath == "/w/alt.toml"
ConfigPaths == {DefaultConfigPath, OtherConfigPath}

Keys == {"k1", "k2"}
NoValue == "<none>"                  \* no key in a table / no credential set

\* A TOML value at the top level: missing, a scalar, or a table.  Of a table
\* the model keeps the one key the program uses (API_KEY of API, PATH of PATH).
Missing == [t |-> "missing", v |-> NoValue]
Scalar == [t |-> "scalar", v |-> NoValue]
Table(v) == [t |-> "table", v |-> v]

\* A file: absent, text that is no TOML, or a TOML document.  layout tells
\* text as toml.dump writes it from text a person wrote (comments, spacing).
Absent == [kind |-> "absent"]
Garbage == [kind |-> "garbage"]
Toml(api, path, layout) == [kind |-> "toml", API |-> api, PATH |-> path, layout |-> layout]
EmptyFile == Toml(Missing, Missing, "dump")      \* "", which is also dump({})

\* the text toml.dump stores for config_path, a pathlib.Path and no str (its
\* repr, with the default encoder); the program never reads it back
dump_path(p) == "PosixPath('" \o p \o "')"

InitDefaultConfigs ==
    { Absent, Garbage, EmptyFile,
      Toml(Scalar, Missing, "hand"),
      Toml(Table(NoValue), Missing, "hand"),
      Toml(Table("k1"), Missing, "hand") }

InitOtherConfigs ==
    { Absent,
      Toml(Missing, Missing, "hand"),
      Toml(Table("k2"), Scalar, "hand") }

\* main.py 119-126.  The result: the key, False, or an exception that escapes
\* (only KeyError is caught).
Value(v) == [out |-> "value", v |-> v]
False == [out |-> "False", v |-> NoValue]
Raise(e) == [out |-> "raise", v |-> e]

\* None, not False, for a missing key: `api_key is False` then lets it pass
load_config_none(file) ==
    IF file.kind = "absent" THEN Raise("FileNotFoundError")
    ELSE IF file.kind = "garbage" THEN Raise("TomlDecodeError")
    ELSE IF file.API.t = "missing" THEN Value("None")
    ELSE IF file.API.t = "scalar" THEN Raise("TypeError")
    ELSE IF file.API.v = NoValue THEN Value("None")
    ELSE Value(file.API.v)

load_config(file) ==
    IF file.kind = "absent" THEN Raise("FileNotFoundError")
    ELSE IF file.kind = "garbage" THEN Raise("TomlDecodeError")
    ELSE IF file.API.t = "missing" THEN False              \* KeyError
    ELSE IF file.API.t = "scalar" THEN Raise("TypeError")  \* 5["API_KEY"]
    ELSE IF file.API.v = NoValue THEN False                \* KeyError
    ELSE Value(file.API.v)

\* the key looked up in the file the last config command was pointed at
init_config_other(c) ==
    LET c1 == IF c[DefaultConfigPath].kind = "absent"
              THEN [c EXCEPT ![DefaultConfigPath] = EmptyFile]
              ELSE c
        at == IF c1[OtherConfigPath].kind = "absent"
              THEN DefaultConfigPath ELSE OtherConfigPath
    IN  [cfg |-> c1, key |-> load_config(c1[at])]

\* main.py 92-105: [cfg, key]; key is what load_config gave
init_config(c) ==
    LET c1 == IF c[DefaultConfigPath].kind = "absent"
              THEN [c EXCEPT ![DefaultConfigPath] = EmptyFile]
              ELSE c
    IN  [cfg |-> c1, key |-> load_config(c1[DefaultConfigPath])]

\* a missing file is created (open(config_path, "w") without the read)
config_file_create(file, api_key, config_path) ==
    IF file.kind = "garbage" THEN [file |-> file, out |-> "TomlDecodeError"]
    ELSE IF file.kind = "toml" /\ (file.API.t = "scalar" \/ file.PATH.t = "scalar")
    THEN [file |-> file, out |-> "TypeError"]
    ELSE [file |-> Toml(Table(api_key), Table(dump_path(config_path)), "dump"),
          out |-> "saved"]

\* setdefault: a key already in the API table is kept
config_file_setdefault(file, api_key, config_path) ==
    IF file.kind = "absent" THEN [file |-> file, out |-> "not_found"]
    ELSE IF file.kind = "garbage" THEN [file |-> file, out |-> "TomlDecodeError"]
    ELSE IF file.API.t = "scalar" \/ file.PATH.t = "scalar"
    THEN [file |-> file, out |-> "TypeError"]
    ELSE [file |-> Toml(IF file.API.t = "table" /\ file.API.v /= NoValue
                        THEN file.API ELSE Table(api_key),
                        Table(dump_path(config_path)), "dump"),
          out |-> "saved"]

\* main.py 64-81: [file, out]; file is the content of config_path afterwards
config_file(file, api_key, config_path) ==
    IF file.kind = "absent" THEN [file |-> file, out |-> "not_found"]
    ELSE IF file.kind = "garbage" THEN [file |-> file, out |-> "TomlDecodeError"]
    ELSE LET api == IF file.API.t = "missing" THEN Table(NoValue) ELSE file.API
             path == IF file.PATH.t = "missing" THEN Table(NoValue) ELSE file.PATH
         IN  IF api.t = "scalar" \/ path.t = "scalar"
             THEN [file |-> file, out |-> "TypeError"]
             ELSE [file |-> Toml(Table(api_key), Table(dump_path(config_path)), "dump"),
                   out |-> "saved"]

-----------------------------------------------------------------------------
(* The processes *)

NoCmd == [name |-> "none"]
Running == [exit |-> -1, why |-> "running"]
Ended(code, why) == [exit |-> code, why |-> why]

\* a new process: nothing configured, nothing read or written yet
Fresh ==
    /\ pc \in {"idle", "done"}
    /\ left > 0
    /\ left' = left - 1
    /\ reads' = <<>>
    /\ resp' = <<>>
    /\ writes' = <<>>
    /\ fs0' = fs
    /\ cfg0' = cfg

\* docsai document FILES [--replace]: main.py 31-36, up to the call of
\* handling_files.  typer.Exit(1) and an escaping exception both end the
\* process with exit status 1.
document(lists) ==
    \E files \in lists, replace \in BOOLEAN :
        LET ic == init_config(cfg) IN
        /\ Fresh
        /\ cmd' = [name |-> "document", files |-> files, replace |-> replace]
        /\ cfg' = ic.cfg
        /\ idx' = 1
        /\ IF ic.key.out = "value"
           THEN /\ genaiKey' = ic.key.v
                /\ pc' = "files"
                /\ result' = Running
           ELSE /\ genaiKey' = NoValue
                /\ pc' = "done"
                /\ result' = Ended(1, IF ic.key.out = "False"
                                      THEN "no_api_key" ELSE ic.key.v)
        /\ UNCHANGED <<fs, saves>>

InLoop == pc = "files" /\ idx <= Len(cmd.files)
file == cmd.files[idx]

\* main.py 153-162: one pass of the loop for a file that exists
file_done(responses) ==
    \E response \in responses :
        LET out == output_file(file, cmd.replace)
            content == read(fs[resolve(file)])
        IN  /\ InLoop
            /\ fs[resolve(file)] /= NoFile
            /\ reads' = Append(reads, content)
            /\ resp' = response
            /\ fs' = [fs EXCEPT ![out] = doc_code(response)]
            /\ writes' = Append(writes, [path |-> out, content |-> doc_code(response)])
            /\ idx' = idx + 1
            /\ UNCHANGED <<cfg, pc, cmd, genaiKey, result, fs0, cfg0, saves, left>>

\* main.py 156: generate_content (or .text) raises; nothing catches it
generate_fails ==
    /\ InLoop
    /\ fs[resolve(file)] /= NoFile
    /\ reads' = Append(reads, read(fs[resolve(file)]))
    /\ pc' = "done"
    /\ result' = Ended(1, "service_failure")
    /\ UNCHANGED <<cfg, fs, cmd, idx, genaiKey, resp, writes, fs0, cfg0, saves, left>>

\* a missing file is skipped and the loop goes on
file_not_found_skip ==
    /\ InLoop
    /\ fs[resolve(file)] = NoFile
    /\ idx' = idx + 1
    /\ UNCHANGED <<cfg, fs, pc, cmd, genaiKey, reads, resp, writes, result, fs0, cfg0,
                   saves, left>>

\* main.py 164-166
file_not_found ==
    /\ InLoop
    /\ fs[resolve(file)] = NoFile
    /\ pc' = "done"
    /\ result' = Ended(1, "file_not_found")
    /\ UNCHANGED <<cfg, fs, cmd, idx, genaiKey, reads, resp, writes, fs0, cfg0, saves, left>>

\* main.py 145: the loop is over, document returns
files_done ==
    /\ pc = "files"
    /\ idx > Len(cmd.files)
    /\ pc' = "done"
    /\ result' = Ended(0, "ok")
    /\ UNCHANGED <<cfg, fs, cmd, idx, genaiKey, reads, resp, writes, fs0, cfg0, saves, left>>

\* docsai config --api-key K [--config-path P]: main.py 64-81
config ==
    \E api_key \in Keys, config_path \in ConfigPaths :
        LET r == config_file(cfg[config_path], api_key, config_path) IN
        /\ Fresh
        /\ cmd' = [name |-> "config", api_key |-> api_key, config_path |-> config_path]
        /\ cfg' = [cfg EXCEPT ![config_path] = r.file]
        /\ pc' = "done"
        /\ result' = IF r.out = "saved" THEN Ended(0, "ok") ELSE Ended(1, r.out)
        /\ saves' = IF r.out = "saved"
                     THEN [saves EXCEPT ![config_path] = Append(@, api_key)]
                     ELSE saves
        /\ genaiKey' = NoValue
        /\ idx' = 1
        /\ UNCHANGED fs

-----------------------------------------------------------------------------
(* The system: any sequence of invocations, each document run on one file *)

\* the state before the first invocation, with n invocations allowed
Start(n) ==
    /\ cfg \in [ConfigPaths -> InitDefaultConfigs \cup InitOtherConfigs]
    /\ cfg[DefaultConfigPath] \in InitDefaultConfigs
    /\ cfg[OtherConfigPath] \in InitOtherConfigs
    /\ fs \in [FilePaths -> {NoFile, SrcText}]
    /\ \A p \in FilePaths : p \notin {resolve(q) : q \in InputPaths} => fs[p] = NoFile
    /\ pc = "idle"
    /\ cmd = NoCmd
    /\ idx = 1
    /\ genaiKey = NoValue
    /\ reads = <<>>
    /\ resp = <<>>
    /\ writes = <<>>
    /\ result = Running
    /\ fs0 = fs
    /\ cfg0 = cfg
    /\ saves = [p \in ConfigPaths |-> <<>>]
    /\ left = n

Init == Start(MaxRuns)

Next ==
    \/ document(OneFileLists)
    \/ config
    \/ file_done(Replies)
    \/ generate_fails
    \/ file_not_found
    \/ files_done

Spec == Init /\ [][Next]_vars

(* One document run over a list of files *)

InitFiles == Start(1)

NextFiles ==
    \/ document(FileLists)
    \/ file_done(Replies)
    \/ generate_fails
    \/ file_not_found
    \/ files_done

SpecFiles == InitFiles /\ [][NextFiles]_vars

(* One document run on one file, the model answering any text *)

InitText == Start(1)

NextText ==
    \/ document(OneFileLists)
    \/ file_done(Texts)
    \/ generate_fails
    \/ file_not_found
    \/ files_done

SpecText == InitText /\ [][NextText]_vars

-----------------------------------------------------------------------------
(* Vocabulary of the properties *)

IsDocument == cmd.name = "document"
IsConfig == cmd.name = "config"

\* the file holds a value at API.API_KEY
HoldsKey(f) == f.kind = "toml" /\ f.API.t = "table" /\ f.API.v /= NoValue
KeyIn(f) == IF HoldsKey(f) THEN f.API.v ELSE NoValue

Last(q) == q[Len(q)]

\* the output path as the specification words it
ExpectedOutput(f, replace) ==
    IF replace THEN resolve(f)
    ELSE [dir |-> resolve(f).dir, name |-> "doc_" \o f.name]

\* lines i..j joined by single newlines
RECURSIVE Joined(_, _, _)
Joined(lines, i, j) ==
    IF i > j THEN <<>>
    ELSE IF i = j THEN lines[i]
    ELSE lines[i] \o <<NL>> \o Joined(lines, i + 1, j)

-----------------------------------------------------------------------------
(* C1 *)

C1_FirstMissingAtStart(i) ==
    /\ fs0[resolve(cmd.files[i])] = NoFile
    /\ \A j \in 1..(i - 1) : fs0[resolve(cmd.files[j])] /= NoFile

\* positions before i read, sent and written, their outputs still there;
\* nothing read or written from i on; no output for position i; exit code 1
C1_AbortedAt(i) ==
    /\ Len(reads) = i - 1
    /\ Len(writes) = i - 1
    /\ \A j \in 1..(i - 1) :
          /\ writes[j].path = ExpectedOutput(cmd.files[j], cmd.replace)
          /\ fs[writes[j].path] /= NoFile
    /\ LET o == ExpectedOutput(cmd.files[i], cmd.replace) IN fs[o] = fs0[o]
    /\ result.exit = 1

\* C1 as stated: if the path at position i is the first of the list that does
\* not exist (when the list is given to document), the run stops there: the
\* paths before i are written, none from i on, and the exit code is 1.
\* Runs in which the model call fails are left out.
C1_Original ==
    (IsDocument /\ pc = "done" /\ result.why \in {"ok", "file_not_found"}) =>
        \A i \in 1..Len(cmd.files) : C1_FirstMissingAtStart(i) => C1_AbortedAt(i)

\* C1 amended: if the path at position i does not exist when the run reaches
\* it, the paths before i have been read, sent and written and are still
\* there, nothing from i on is sent or written, no output is created for the
\* missing path, and the run ends with exit code 1; a run that ends with exit
\* code 0 has written every position.
C1_AbortsWhenReachedMissing ==
    IsDocument =>
        /\ pc = "files" => (Len(reads) = idx - 1 /\ Len(writes) = idx - 1)
        /\ result.why = "file_not_found" =>
              /\ pc = "done"
              /\ fs[resolve(cmd.files[idx])] = NoFile
              /\ C1_AbortedAt(idx)
        /\ result.exit = 0 => Len(writes) = Len(cmd.files)

C1_Witness ==
    /\ IsDocument
    /\ result.why = "file_not_found"
    /\ idx = 2
    /\ Len(writes) = 1

-----------------------------------------------------------------------------
(* C2 *)

\* C2: for a response of N >= 2 lines the content written is lines 1..N-2
\* (0-based) joined by single newlines; N = 2 gives an empty output.
C2_StripsFirstAndLastLine ==
    (Len(writes) >= 1 /\ Len(splitlines(resp)) >= 2) =>
        LET lines == splitlines(resp)
            n == Len(lines)
            w == Last(writes)
        IN  /\ w.content = Joined(lines, 2, n - 1)
            /\ fs[w.path] = w.content
            /\ n = 2 => w.content = <<>>

C2_Witness ==
    /\ Len(writes) = 1
    /\ Len(splitlines(resp)) = 4
    /\ Last(writes).content = <<NL>>

-----------------------------------------------------------------------------
(* C3 *)

\* C3 as stated: a response of one line gives an empty output file, and for
\* a response of no lines nothing is written (an index error is raised).
C3_Original ==
    Len(writes) >= 1 =>
        /\ Len(splitlines(resp)) /= 0
        /\ Len(splitlines(resp)) = 1 => Last(writes).content = <<>>

\* C3 amended: a response of one line and a response of no lines both give
\* an empty output file; no error is raised, every response is written.
C3_ShortResponseGivesEmptyOutput ==
    /\ (Len(writes) >= 1 /\ Len(splitlines(resp)) < 2) =>
          /\ Last(writes).content = <<>>
          /\ fs[Last(writes).path] = <<>>
    /\ (IsDocument /\ result.why /= "service_failure") => Len(writes) = Len(reads)

C3_Witness ==
    /\ Len(writes) = 1
    /\ resp = <<>>
    /\ fs[Last(writes).path] = <<>>

-----------------------------------------------------------------------------
(* C4 *)

\* C4: with replace the output path is the input path; without it, the file
\* "doc_" + name in the input's directory, which is never the input itself.
C4_OutputPath ==
    IsDocument =>
        \A j \in 1..Len(writes) :
            LET f == cmd.files[j]
                o == writes[j].path
            IN  /\ cmd.replace => o = resolve(f)
                /\ ~cmd.replace =>
                      /\ o.dir = resolve(f).dir
                      /\ o.name = "doc_" \o f.name
                      /\ o /= resolve(f)
                /\ fs[o] /= NoFile

C4_Witness ==
    /\ IsDocument
    /\ ~cmd.replace
    /\ Len(writes) = 2
    /\ cmd.files[2].dir = "/v"
    /\ cmd.files[1].dir = "."

-----------------------------------------------------------------------------
(* C5 *)

\* C5: document started with no config file, or one that holds no API key,
\* ends with exit code 1: no credential set, nothing read, no request, no
\* output written.
C5_NoKeyNoAction ==
    (IsDocument /\ ~HoldsKey(cfg0[DefaultConfigPath])) =>
        /\ pc = "done"
        /\ result.exit = 1
        /\ genaiKey = NoValue
        /\ reads = <<>>
        /\ writes = <<>>
        /\ fs = fs0

C5_Witness ==
    /\ IsDocument
    /\ cfg0[DefaultConfigPath].kind = "absent"
    /\ Len(cmd.files) = 2
    /\ cmd.replace
    /\ result.exit = 1

-----------------------------------------------------------------------------
(* C6 *)

\* C6: load_config gives the value at API.API_KEY when the file has it and
\* False for every other content, and never raises: a document run either
\* sets that key as the credential or ends for want of a key.
C6_LoadNeverRaises ==
    IsDocument =>
        IF HoldsKey(cfg0[DefaultConfigPath])
        THEN genaiKey = cfg0[DefaultConfigPath].API.v
        ELSE result.why = "no_api_key"

-----------------------------------------------------------------------------
(* C7 *)

\* C7: after successful saves the file has its API table and its PATH table,
\* API.API_KEY is the key of the last save, and saving the same key a second
\* time leaves the content as the first save left it.
C7_SaveIdempotent ==
    /\ \A p \in ConfigPaths :
          saves[p] /= <<>> =>
              /\ cfg[p].kind = "toml"
              /\ cfg[p].API.t = "table"
              /\ cfg[p].PATH.t = "table"
              /\ cfg[p].API.v = Last(saves[p])
    /\ (IsConfig /\ result.why = "ok") =>
          LET p == cmd.config_path
              n == Len(saves[p])
          IN  (n >= 2 /\ saves[p][n - 1] = saves[p][n]) => cfg[p] = cfg0[p]

C7_Witness ==
    /\ IsConfig
    /\ result.why = "ok"
    /\ Len(saves[cmd.config_path]) = 3
    /\ saves[cmd.config_path] = <<"k2", "k1", "k1">>
    /\ cfg[cmd.config_path] = cfg0[cmd.config_path]

-----------------------------------------------------------------------------
(* C8 *)

\* C8: config on a path where no file exists ends with exit code 1 and
\* changes no file.
C8_ConfigNeedsFile ==
    (IsConfig /\ cfg0[cmd.config_path].kind = "absent") =>
        /\ result.exit = 1
        /\ cfg = cfg0
        /\ fs = fs0
        /\ \A p \in ConfigPaths : cfg[p].kind /= "absent" => KeyIn(cfg[p]) = KeyIn(cfg0[p])

C8_Witness ==
    /\ IsConfig
    /\ cfg0[cmd.config_path].kind = "absent"
    /\ cmd.config_path = OtherConfigPath
    /\ result.exit = 1

-----------------------------------------------------------------------------
(* C9 *)

C9_ReadsAndWritesApart ==
    /\ \A j \in 1..Len(reads) :
          /\ fs0[resolve(cmd.files[j])] /= NoFile
          /\ reads[j] = read(fs0[resolve(cmd.files[j])])
    /\ \A j \in 1..Len(writes) : fs[writes[j].path] = writes[j].content

\* no position's output path is the input or the output path of another
C9_Independent ==
    \A j, k \in 1..Len(cmd.files) :
        j /= k =>
            ExpectedOutput(cmd.files[j], cmd.replace) \notin
                { resolve(cmd.files[k]), ExpectedOutput(cmd.files[k], cmd.replace) }

\* C9 as stated: for any list, what is read for a position is what the file
\* held when the run started, and what was written for a position is still
\* there.
C9_Original == IsDocument => C9_ReadsAndWritesApart

\* C9 amended: the same, for lists in which no position's output path is the
\* input path or the output path of another position.
C9_IndependentWhenPathsApart ==
    (IsDocument /\ C9_Independent) => C9_ReadsAndWritesApart

C9_Witness ==
    /\ IsDocument
    /\ C9_Independent
    /\ result.why = "ok"
    /\ Len(writes) = 2
    /\ writes[1].content /= writes[2].content

-----------------------------------------------------------------------------
(* C10 *)

\* C10: document takes its key from the default config file alone: config on
\* another path leaves what document will use unchanged, and after config on
\* the default path document sets exactly the key last saved there.
C10_KeyFromDefaultPath ==
    /\ IsDocument => genaiKey = KeyIn(cfg[DefaultConfigPath])
    /\ (IsDocument /\ saves[DefaultConfigPath] /= <<>>) =>
          genaiKey = Last(saves[DefaultConfigPath])
    /\ (IsConfig /\ cmd.config_path /= DefaultConfigPath) =>
          cfg[DefaultConfigPath] = cfg0[DefaultConfigPath]

C10_Witness ==
    /\ IsDocument
    /\ saves[DefaultConfigPath] = <<"k1">>
    /\ saves[OtherConfigPath] = <<"k2">>
    /\ genaiKey = "k1"
    /\ pc = "files"

====
